---- MODULE Spec2Model ----
(***************************************************************************)
(* Model of cogs/highlight.py: the presence counter recently_spoken, the   *)
(* message and typing event handlers, the trigger scan (highlights) and    *)
(* the notification dispatch (notify).  Time is a discrete clock in        *)
(* seconds; asyncio.sleep timers fire at their deadline, awaits on the     *)
(* database and on the platform complete within the second they start in,  *)
(* in any order among the tasks that are waiting.                          *)
(***************************************************************************)
EXTENDS Integers, Sequences, FiniteSets, TLC

VARIABLES now, recently_spoken, tasks, sent, rejected, highlight_db, block_db

vars == <<now, recently_spoken, tasks, sent, rejected, highlight_db, block_db>>

(* ---------------- program constants ---------------- *)

LAST_SPOKEN_CUTOFF == 10

NEW_MESSAGES_TIMEOUT == 9

(* ---------------- bounds of the model ---------------- *)

\* number of events (messages and typing notices) delivered in one behaviour
MaxEvents == 2

\* events are delivered while the clock is at most this
LastEventTime == 1

\* number of platform errors (discord.HTTPException) raised in one behaviour
MaxErrors == 1

Users == {"A", "B", "C"}

Channels == {"ch"}

(* ---------------- text ---------------- *)

cat == <<"c", "a", "t">>

tea == <<"t", "e", "a">>

cat_tea_cat == <<"c", "a", "t", " ", "t", "e", "a", " ", "c", "a", "t">>

tea_cat == <<"t", "e", "a", " ", "c", "a", "t">>

coffee == <<"c", "o", "f", "f", "e", "e">>

Coffee == <<"C", "o", "f", "f", "e", "e">>

COFFEE == <<"C", "O", "F", "F", "E", "E">>

I_love_Coffee_and_tea ==
    << "I", " ", "l", "o", "v", "e", " ", "C", "o", "f", "f", "e", "e", " ",
       "a", "n", "d", " ", "t", "e", "a" >>

category == <<"c", "a", "t", "e", "g", "o", "r", "y">>

the_cat_sat == <<"t", "h", "e", " ", "c", "a", "t", " ", "s", "a", "t">>

tomcat == <<"t", "o", "m", "c", "a", "t">>

\* the message-created events: author, content, seconds between the creation
\* of the message and its delivery to on_message, message.guild is set,
\* bot.should_reply(message)
MessageEvents ==
    { [author |-> "A", content |-> tea_cat, lag |-> 0, guild |-> TRUE, reply |-> TRUE],
      [author |-> "C", content |-> cat_tea_cat, lag |-> 1, guild |-> TRUE, reply |-> TRUE],
      [author |-> "C", content |-> tea_cat, lag |-> 0, guild |-> FALSE, reply |-> TRUE],
      [author |-> "C", content |-> tea_cat, lag |-> 0, guild |-> TRUE, reply |-> FALSE] }

\* the typing-started events: user, seconds between the start of typing and
\* its delivery to on_typing
TypingEvents ==
    { [user |-> "A", lag |-> 0], [user |-> "A", lag |-> 3],
      [user |-> "A", lag |-> 10], [user |-> "B", lag |-> 3] }

UpperLetters ==
    << "A", "B", "C", "D", "E", "F", "G", "H", "I", "J", "K", "L", "M",
       "N", "O", "P", "Q", "R", "S", "T", "U", "V", "W", "X", "Y", "Z" >>

LowerLetters ==
    << "a", "b", "c", "d", "e", "f", "g", "h", "i", "j", "k", "l", "m",
       "n", "o", "p", "q", "r", "s", "t", "u", "v", "w", "x", "y", "z" >>

\* the lower-case letter of every upper-case letter
LowerOf ==
    [c \in {UpperLetters[n] : n \in 1..Len(UpperLetters)} |->
        LowerLetters[CHOOSE n \in 1..Len(UpperLetters) : UpperLetters[n] = c]]

\* str.lower() on one character, as re.IGNORECASE compares
Lower(c) == IF c \in DOMAIN LowerOf THEN LowerOf[c] ELSE c

\* \w of the re module: letters are word characters, the space is not
IsWord(c) == c # " "

\* \b at position p (between s[p-1] and s[p]) of s
WordBoundary(s, p) ==
    ((p > 1) /\ IsWord(s[p - 1])) # ((p <= Len(s)) /\ IsWord(s[p]))

\* the literal text compared without re.IGNORECASE
LiteralAt_exact(t, s, p) ==
    /\ p + Len(t) - 1 <= Len(s)
    /\ \A i \in 1..Len(t) : s[p + i - 1] = t[i]

\* the escaped literal text t matches s at position p, ignoring case
LiteralAt(t, s, p) ==
    /\ p + Len(t) - 1 <= Len(s)
    /\ \A i \in 1..Len(t) : Lower(s[p + i - 1]) = Lower(t[i])

\* the pattern r'(?i)\b' + 'k1|k2|...|kn' + r'\b' as the re module parses it:
\* alternation binds weakest, so the leading \b belongs to the first
\* alternative only and the trailing \b to the last one only
build_re(highlights) ==
    [i \in 1..Len(highlights) |->
        [lb |-> (i = 1), text |-> highlights[i], rb |-> (i = Len(highlights))]]

AltAt(alt, s, p) ==
    /\ alt.lb => WordBoundary(s, p)
    /\ LiteralAt(alt.text, s, p)
    /\ alt.rb => WordBoundary(s, p + Len(alt.text))

\* the first alternative of regex that matches at p, 0 if none does
FirstAlt(regex, s, p) ==
    IF \E i \in 1..Len(regex) : AltAt(regex[i], s, p)
    THEN CHOOSE i \in 1..Len(regex) :
            /\ AltAt(regex[i], s, p)
            /\ \A j \in 1..(i - 1) : ~AltAt(regex[j], s, p)
    ELSE 0

\* re.finditer(regex, s) from position p: the texts match[0] of the
\* non-overlapping matches, left to right
RECURSIVE finditer(_, _, _)
finditer(regex, s, p) ==
    IF p > Len(s) THEN << >>
    ELSE LET i == FirstAlt(regex, s, p) IN
         IF i = 0 THEN finditer(regex, s, p + 1)
         ELSE <<SubSeq(s, p, p + Len(regex[i].text) - 1)>>
                \o finditer(regex, s, p + Len(regex[i].text))

LowerText(s) == [i \in 1..Len(s) |-> Lower(s[i])]

(* ---------------- the database cog (trigger store, block lists) -------- *)

\* a multidict: an ordered list of (trigger text, user) items
TriggerStores ==
    { << >>,
      << [k |-> cat, u |-> "A"], [k |-> tea, u |-> "B"], [k |-> tea, u |-> "A"] >> }

\* block lists: user -> set of entities that user has blocked
BlockLists ==
    { [u \in Users |-> IF u = "A" THEN {"C"} ELSE {}],
      [u \in Users |-> IF u = "C" THEN {"A"} ELSE {}] }

\* the trigger stores and the message bodies of the scans of a single message
ScanStores ==
    TriggerStores \cup
        { << [k |-> coffee, u |-> "A"], [k |-> tea, u |-> "B"] >>,
          << [k |-> cat, u |-> "A"] >> }

ScanContents ==
    { coffee, Coffee, COFFEE, I_love_Coffee_and_tea, category, the_cat_sat,
      tomcat, cat_tea_cat }

ScanBlockLists == BlockLists \cup { [u \in Users |-> {}] }

\* db_cog.channel_highlights(channel)
channel_highlights(channel) == highlight_db

\* db_cog.blocks(user): the entities that user has blocked
blocks(user) == block_db[user]

\* highlight_users.keys() as a set
Keys(highlight_users) == {highlight_users[i].k : i \in 1..Len(highlight_users)}

\* highlight_users.getall(highlight): the users of the items stored under
\* the trigger text, in item order; the store is case-insensitive
RECURSIVE getall(_, _)
getall(highlight_users, highlight) ==
    IF highlight_users = << >> THEN << >>
    ELSE (IF LowerText(Head(highlight_users).k) = LowerText(highlight)
          THEN <<Head(highlight_users).u>> ELSE << >>)
         \o getall(Tail(highlight_users), highlight)

\* the orders in which a set of strings can be iterated
Orders(S) ==
    {o \in [1..Cardinality(S) -> S] : \A x \in S : \E i \in DOMAIN o : o[i] = x}

(* ---------------- PositiveCounter ---------------- *)

\* Counter.__missing__: a key that is not stored reads as 0
Counter_getitem(counter, key) ==
    IF key \in DOMAIN counter THEN counter[key] ELSE 0

\* dict.__setitem__: a plain Counter stores whatever count it is given
Counter_setitem(counter, key, count) ==
    [x \in (DOMAIN counter) \cup {key} |-> IF x = key THEN count ELSE counter[x]]

\* PositiveCounter.__setitem__
PositiveCounter_setitem(counter, key, count) ==
    IF count > 0
    THEN [x \in (DOMAIN counter) \cup {key} |-> IF x = key THEN count ELSE counter[x]]
    ELSE [x \in (DOMAIN counter) \ {key} |-> counter[x]]

\* an increment that writes back a count read before another task's update
Incremented_stale(counter, info) ==
    PositiveCounter_setitem(counter, info, 1)

\* self.recently_spoken[info] += 1
Incremented(counter, info) ==
    PositiveCounter_setitem(counter, info, Counter_getitem(counter, info) + 1)

\* a set in place of the counter: the release discards the key
Decremented_discard(counter, info) ==
    PositiveCounter_setitem(counter, info, 0)

\* self.recently_spoken[info] -= 1
Decremented(counter, info) ==
    PositiveCounter_setitem(counter, info, Counter_getitem(counter, info) - 1)

(* ---------------- handler tasks ---------------- *)

\* the program counter of a handler task:
\*   "channel_highlights"  on_message awaits db_cog.channel_highlights
\*   "blocks"              highlights awaits db_cog.blocks for owner oi of match mi
\*   "notify_sleep"        notify awaits asyncio.sleep
\*   "history"             notification_message awaits channel.history
\*   "send"                notify awaits user.send
\*   "spoken_sleep"        _track_spoken awaits asyncio.sleep
\*   "track"               the scan loop has ended (left within the same step)
\*   "raised"              the handler ended with an exception
\*   "done"                the handler ran to its end
NewTask(kind, channel, user, content, created_at, guild, reply) ==
    [ kind |-> kind, pc |-> "done",
      channel |-> channel, user |-> user, content |-> content,
      created_at |-> created_at, received |-> now,
      guild |-> guild, reply |-> reply,
      present0 |-> {u \in Users : <<channel, u>> \in DOMAIN recently_spoken},
      matches |-> << >>, mi |-> 0, oi |-> 0, seen_users |-> {},
      results |-> << >>,
      nstart |-> -1, slept |-> 0, wake |-> -1,
      lstart |-> -1, delay |-> 0 ]

\* the owner the scan is at
CurrentUser(t) == getall(channel_highlights(t.channel), t.matches[t.mi])[t.oi]

\* the next owner of the current match, else the first owner of the next
\* match, else the end of the loop of on_message
Continue(t) ==
    IF t.mi >= 1 /\ t.oi < Len(getall(channel_highlights(t.channel), t.matches[t.mi]))
    THEN [t EXCEPT !.pc = "blocks", !.oi = t.oi + 1]
    ELSE IF t.mi < Len(t.matches)
    THEN [t EXCEPT !.pc = "blocks", !.mi = t.mi + 1, !.oi = 1]
    ELSE [t EXCEPT !.pc = "track"]

\* the generator resumes after the body of the async for: seen_users.add(user)
AfterBody(t) == Continue([t EXCEPT !.seen_users = t.seen_users \cup {CurrentUser(t)}])

\* if user in await self.db_cog.blocks(message.author.id): continue
IsBlocked(user, author) == user \in blocks(author)

\* the yield test without the seen_users test
IsYielded_noseen(t, user) == user # t.user

\* the yield test without the author test
IsYielded_noauthor(t, user) == user \notin t.seen_users

\* if user not in seen_users and user != message.author: yield
IsYielded(t, user) == user \notin t.seen_users /\ user # t.user

\* a presence test that never finds the user
IsPresent_never(channel, user) == FALSE

\* (message.channel.id, user.id) in self.recently_spoken
IsPresent(channel, user) == <<channel, user>> \in DOMAIN recently_spoken

\* notify sleeping the whole settle window whenever it sleeps
NotifySleep_full(diff) ==
    IF diff < NEW_MESSAGES_TIMEOUT THEN NEW_MESSAGES_TIMEOUT ELSE 0

\* notify: the argument of asyncio.sleep, 0 when notify does not sleep
NotifySleep(diff) ==
    IF diff < NEW_MESSAGES_TIMEOUT THEN NEW_MESSAGES_TIMEOUT - diff ELSE 0

\* notify spawned as a task of its own: on_message goes on at once
notify_spawned(t) == AfterBody([t EXCEPT !.nstart = now])

\* notify(user, highlight, message) up to its first await
notify(t) ==
    LET diff == now - t.created_at
        d == NotifySleep(diff)
    IN  IF d > 0
        THEN [t EXCEPT !.pc = "notify_sleep", !.nstart = now, !.slept = d, !.wake = now + d]
        ELSE [t EXCEPT !.pc = "history", !.nstart = now, !.slept = 0]

\* _track_spoken(info, delay) up to its await: the task after the increment
track_spoken(t, delay) ==
    [t EXCEPT !.pc = "spoken_sleep", !.lstart = now, !.delay = delay, !.wake = now + delay]

\* store the task; a scan loop that has ended goes on to
\* await self._track_spoken((message.channel.id, message.author.id))
Commit(i, t) ==
    IF t.pc = "track"
    THEN /\ tasks' = [tasks EXCEPT ![i] = track_spoken(t, LAST_SPOKEN_CUTOFF)]
         /\ recently_spoken' = Incremented(recently_spoken, <<t.channel, t.user>>)
    ELSE /\ tasks' = [tasks EXCEPT ![i] = t]
         /\ UNCHANGED recently_spoken

TimerDue ==
    \E i \in 1..Len(tasks) :
        tasks[i].pc \in {"notify_sleep", "spoken_sleep"} /\ tasks[i].wake <= now

(* ---------------- actions ---------------- *)

Init ==
    /\ now = 0
    /\ recently_spoken = << >>
    /\ tasks = << >>
    /\ sent = {}
    /\ rejected = 0
    /\ highlight_db \in TriggerStores
    /\ block_db \in BlockLists
    /\ (highlight_db = << >>) => (block_db["C"] = {})

\* the guard of on_message without the should_reply test
IsRejected_guildonly(guild, reply) == ~guild

\* if not message.guild or not self.bot.should_reply(message): return
IsRejected(guild, reply) == ~guild \/ ~reply

\* the events delivered so far
Events == Len(tasks) + rejected

\* a message-created event is delivered: on_message up to its first await;
\* a message that is rejected leaves no task behind, it is only counted
on_message(author, channel, content, lag, guild, reply) ==
    /\ Events < MaxEvents
    /\ now <= LastEventTime
    /\ IF IsRejected(guild, reply)
       THEN /\ rejected' = rejected + 1
            /\ UNCHANGED tasks
       ELSE /\ tasks' = Append(tasks,
                    [NewTask("message", channel, author, content, now - lag, guild, reply)
                        EXCEPT !.pc = "channel_highlights"])
            /\ UNCHANGED rejected
    /\ UNCHANGED <<now, recently_spoken, sent, highlight_db, block_db>>

\* db_cog.channel_highlights returns: highlights builds the pattern from the
\* set of keys, iterated in some order, and scans
ChannelHighlightsReturn(i) ==
    /\ tasks[i].pc = "channel_highlights"
    /\ LET t == tasks[i]
           highlight_users == channel_highlights(t.channel)
       IN  IF highlight_users = << >>
           THEN Commit(i, [t EXCEPT !.pc = "track"])
           ELSE \E order \in Orders(Keys(highlight_users)) :
                    Commit(i, Continue([t EXCEPT
                        !.matches = finditer(build_re(order), t.content, 1)]))
    /\ UNCHANGED <<now, sent, rejected, highlight_db, block_db>>

\* db_cog.blocks returns for the current owner: the rest of the loop body of
\* highlights and, for a yielded pair, the body of the loop of on_message
BlocksReturn(i) ==
    /\ tasks[i].pc = "blocks"
    /\ LET t == tasks[i]
           user == CurrentUser(t)
       IN  IF IsBlocked(user, t.user) \/ ~IsYielded(t, user)
           THEN Commit(i, Continue(t))
           ELSE LET present == IsPresent(t.channel, user)
                    y == [t EXCEPT !.results = Append(t.results,
                            [user |-> user, highlight |-> t.matches[t.mi],
                             present |-> present])]
                IN  IF present THEN Commit(i, AfterBody(y)) ELSE Commit(i, notify(y))
    /\ UNCHANGED <<now, sent, rejected, highlight_db, block_db>>

\* the settle wait of notify ends
NotifyWake(i) ==
    /\ tasks[i].pc = "notify_sleep"
    /\ tasks[i].wake <= now
    /\ tasks' = [tasks EXCEPT ![i].pc = "history"]
    /\ UNCHANGED <<now, recently_spoken, sent, rejected, highlight_db, block_db>>

\* the platform errors raised so far
Errors ==
    Cardinality({e \in sent : ~e.ok})
    + Cardinality({i \in 1..Len(tasks) : tasks[i].pc = "raised"})

\* channel.history returns or raises discord.HTTPException; the exception is
\* raised outside the suppress block of notify and ends on_message
HistoryReturn(i, ok) ==
    /\ tasks[i].pc = "history"
    /\ ok \/ Errors < MaxErrors
    /\ tasks' = [tasks EXCEPT ![i].pc = IF ok THEN "send" ELSE "raised"]
    /\ UNCHANGED <<now, recently_spoken, sent, rejected, highlight_db, block_db>>

\* user.send outside contextlib.suppress: the exception ends on_message
AfterSend_propagate(t, ok) ==
    IF ok THEN AfterBody(t) ELSE [t EXCEPT !.pc = "raised"]

\* the state of on_message after user.send has returned (ok) or has raised
\* discord.HTTPException inside contextlib.suppress
AfterSend(t, ok) == AfterBody(t)

\* user.send returns or raises discord.HTTPException
SendReturn(i, ok) ==
    /\ tasks[i].pc = "send"
    /\ ok \/ Errors < MaxErrors
    /\ LET t == tasks[i]
       IN  /\ sent' = sent \cup
                {[task |-> i, seq |-> Cardinality({e \in sent : e.task = i}) + 1,
                  user |-> CurrentUser(t), highlight |-> t.matches[t.mi],
                  mi |-> t.mi, oi |-> t.oi,
                  started |-> t.nstart, slept |-> t.slept, time |-> now, ok |-> ok]}
           /\ Commit(i, AfterSend(t, ok))
    /\ UNCHANGED <<now, rejected, highlight_db, block_db>>

\* on_typing leasing the whole window
TypingDelay_full(diff) ==
    IF diff < LAST_SPOKEN_CUTOFF THEN LAST_SPOKEN_CUTOFF ELSE 0

\* on_typing: the lease of a typing event that started `diff` seconds ago
TypingDelay(diff) ==
    IF diff < LAST_SPOKEN_CUTOFF THEN LAST_SPOKEN_CUTOFF - diff ELSE 0

\* a typing-started event is delivered
on_typing(channel, user, lag) ==
    /\ Events < MaxEvents
    /\ now <= LastEventTime
    /\ LET t == NewTask("typing", channel, user, << >>, now - lag, TRUE, TRUE)
           d == TypingDelay(now - t.created_at)
       IN  IF d > 0
           THEN /\ tasks' = Append(tasks, track_spoken(t, d))
                /\ recently_spoken' = Incremented(recently_spoken, <<channel, user>>)
           ELSE /\ tasks' = Append(tasks, t)
                /\ UNCHANGED recently_spoken
    /\ UNCHANGED <<now, sent, rejected, highlight_db, block_db>>

\* the sleep of _track_spoken ends: the decrement
TrackSpokenWake(i) ==
    /\ tasks[i].pc = "spoken_sleep"
    /\ tasks[i].wake <= now
    /\ recently_spoken' = Decremented(recently_spoken, <<tasks[i].channel, tasks[i].user>>)
    /\ tasks' = [tasks EXCEPT ![i].pc = "done"]
    /\ UNCHANGED <<now, sent, rejected, highlight_db, block_db>>

\* the deadlines of the pending timers
Deadlines ==
    {tasks[i].wake : i \in {j \in 1..Len(tasks) :
                                tasks[j].pc \in {"notify_sleep", "spoken_sleep"}}}

Min(S) == CHOOSE x \in S : \A y \in S : x <= y

\* a task awaits the database or the platform
Awaiting ==
    \E i \in 1..Len(tasks) :
        tasks[i].pc \in {"channel_highlights", "blocks", "history", "send"}

\* time passes, after the timers that are due have fired and the pending
\* awaits have completed: by one second while events can still be delivered,
\* then to the deadline of the next timer
Tick ==
    /\ ~TimerDue
    /\ ~Awaiting
    /\ IF Events < MaxEvents /\ now <= LastEventTime
       THEN now' = now + 1
       ELSE Deadlines # {} /\ now' = Min(Deadlines)
    /\ UNCHANGED <<recently_spoken, tasks, sent, rejected, highlight_db, block_db>>

Next ==
    \/ \E c \in Channels, e \in MessageEvents :
            on_message(e.author, c, e.content, e.lag, e.guild, e.reply)
    \/ \E c \in Channels, e \in TypingEvents : on_typing(c, e.user, e.lag)
    \/ \E i \in 1..Len(tasks) : ChannelHighlightsReturn(i)
    \/ \E i \in 1..Len(tasks) : BlocksReturn(i)
    \/ \E i \in 1..Len(tasks) : NotifyWake(i)
    \/ \E i \in 1..Len(tasks), ok \in BOOLEAN : HistoryReturn(i, ok)
    \/ \E i \in 1..Len(tasks), ok \in BOOLEAN : SendReturn(i, ok)
    \/ \E i \in 1..Len(tasks) : TrackSpokenWake(i)
    \/ Tick

Spec == Init /\ [][Next]_vars

(* ---------------- the handling of a single message ---------------- *)

\* one message from C has been delivered to on_message, which awaits the
\* trigger store; nobody is present
InitScan ==
    /\ now = 0
    /\ recently_spoken = << >>
    /\ sent = {}
    /\ rejected = 0
    /\ highlight_db \in ScanStores
    /\ block_db \in ScanBlockLists
    /\ \E c \in Channels, content \in ScanContents :
            tasks = << [NewTask("message", c, "C", content, now, TRUE, TRUE)
                            EXCEPT !.pc = "channel_highlights"] >>

\* the steps of the handler, with no further event
NextScan ==
    \/ \E i \in 1..Len(tasks) : ChannelHighlightsReturn(i)
    \/ \E i \in 1..Len(tasks) : BlocksReturn(i)
    \/ \E i \in 1..Len(tasks) : NotifyWake(i)
    \/ \E i \in 1..Len(tasks), ok \in BOOLEAN : HistoryReturn(i, ok)
    \/ \E i \in 1..Len(tasks), ok \in BOOLEAN : SendReturn(i, ok)
    \/ \E i \in 1..Len(tasks) : TrackSpokenWake(i)
    \/ Tick

SpecScan == InitScan /\ [][NextScan]_vars

(* ---------------- properties ---------------- *)

TaskIds == 1..Len(tasks)

PresenceKeys == Channels \X Users

KeyOf(t) == <<t.channel, t.user>>

\* the task has taken a lease (it has run the increment of _track_spoken)
HasLease(i) == tasks[i].lstart >= 0

LeaseEnd(i) == tasks[i].lstart + tasks[i].delay

\* the scan loop of on_message has run to its end
ScanCompleted(t) == t.kind = "message" /\ t.pc \in {"spoken_sleep", "done"}

\* the position of the scan
Before(mi1, oi1, mi2, oi2) == mi1 < mi2 \/ (mi1 = mi2 /\ oi1 < oi2)

\* C1: a key is in recently_spoken exactly during the union of the intervals
\* [start, start + delay) of the leases taken on it: while any interval is
\* open the key is present, and once time moves on after the last interval
\* has ended the key is absent.
C1_LeaseUnion ==
    \A key \in PresenceKeys :
        LET open == \E i \in TaskIds :
                        /\ HasLease(i) /\ KeyOf(tasks[i]) = key
                        /\ tasks[i].lstart <= now /\ now < LeaseEnd(i)
            ending == \E i \in TaskIds :
                        /\ HasLease(i) /\ KeyOf(tasks[i]) = key
                        /\ tasks[i].pc = "spoken_sleep" /\ now = LeaseEnd(i)
        IN  /\ open => key \in DOMAIN recently_spoken
            /\ (key \in DOMAIN recently_spoken) => (open \/ ending)
            /\ (~TimerDue) => ((key \in DOMAIN recently_spoken) <=> open)

\* C1 witness: of two overlapping leases on one key the earlier has been
\* released, the later is outstanding and the key is still present
C1_Witness ==
    \E i, j \in TaskIds :
        /\ i # j /\ HasLease(i) /\ HasLease(j)
        /\ KeyOf(tasks[i]) = KeyOf(tasks[j])
        /\ tasks[i].pc = "done" /\ tasks[j].pc = "spoken_sleep"
        /\ tasks[j].lstart < LeaseEnd(i) /\ LeaseEnd(i) < LeaseEnd(j)
        /\ now >= LeaseEnd(i)
        /\ KeyOf(tasks[j]) \in DOMAIN recently_spoken

\* C2 (as claimed): a user who held a presence lease on the channel when the
\* message was received is never dispatched a notification for that message.
C2_NoDispatchWhenPresentAtReceipt ==
    \A i \in TaskIds : \A k \in 1..Len(tasks[i].results) :
        (~tasks[i].results[k].present) =>
            tasks[i].results[k].user \notin tasks[i].present0

\* C3 (as claimed): the lease of a typing event that arrives while the window
\* opened by the user's last message is open does not outlast that window.
C3_TypingWithinMessageWindow ==
    \A i, j \in TaskIds :
        ( /\ tasks[i].kind = "message" /\ HasLease(i)
          /\ tasks[j].kind = "typing" /\ HasLease(j)
          /\ KeyOf(tasks[i]) = KeyOf(tasks[j])
          /\ tasks[i].lstart <= tasks[j].lstart /\ tasks[j].lstart < LeaseEnd(i)
          /\ \A m \in TaskIds :
                (tasks[m].kind = "message" /\ HasLease(m)
                    /\ KeyOf(tasks[m]) = KeyOf(tasks[j])
                    /\ tasks[m].lstart <= tasks[j].lstart)
                => tasks[m].lstart <= tasks[i].lstart )
        => LeaseEnd(j) <= LeaseEnd(i)

\* C3 (amended): a typing event that started at `when` and is handled diff
\* seconds later leases the key for exactly LAST_SPOKEN_CUTOFF - diff seconds
\* when diff < LAST_SPOKEN_CUTOFF, so its lease ends at when +
\* LAST_SPOKEN_CUTOFF, and takes no lease otherwise.
C3_TypingLeaseFromTypingStart ==
    \A i \in TaskIds :
        (tasks[i].kind = "typing") =>
            LET diff == tasks[i].received - tasks[i].created_at
            IN  IF diff < LAST_SPOKEN_CUTOFF
                THEN /\ tasks[i].lstart = tasks[i].received
                     /\ tasks[i].delay = LAST_SPOKEN_CUTOFF - diff
                     /\ LeaseEnd(i) = tasks[i].created_at + LAST_SPOKEN_CUTOFF
                ELSE /\ ~HasLease(i)
                     /\ tasks[i].pc = "done"

\* C3 witness: a typing event handled 3 seconds after it started, while the
\* window of the user's message is open, holds a lease of 7 seconds
C3_Witness ==
    \E i, j \in TaskIds :
        /\ tasks[i].kind = "message" /\ HasLease(i)
        /\ tasks[j].kind = "typing" /\ HasLease(j)
        /\ KeyOf(tasks[i]) = KeyOf(tasks[j])
        /\ tasks[i].lstart <= tasks[j].lstart /\ tasks[j].lstart < LeaseEnd(i)
        /\ tasks[j].received - tasks[j].created_at = 3
        /\ tasks[j].delay = 7

\* C4 (as claimed): when the owner of a trigger has blocked the author of a
\* message, highlights yields no result for that owner.
C4_BlockerGetsNoResult ==
    \A i \in TaskIds : \A k \in 1..Len(tasks[i].results) :
        tasks[i].user \notin blocks(tasks[i].results[k].user)

\* the user has registered the trigger the text is an occurrence of
Owns(u, channel, text) ==
    \E n \in 1..Len(channel_highlights(channel)) :
        /\ channel_highlights(channel)[n].u = u
        /\ LowerText(channel_highlights(channel)[n].k) = LowerText(text)

\* the matches of the scan that the user owns
OwnedMatches(t, u) ==
    {m \in 1..Len(t.matches) : Owns(u, t.channel, t.matches[m])}

\* the delivery attempts of task i to user u
SentTo(i, u) == {e \in sent : e.task = i /\ e.user = u}

\* the results of task i for user u
ResultsFor(i, u) == {k \in 1..Len(tasks[i].results) : tasks[i].results[k].user = u}

C6_NoSelfNotification ==
    /\ \A i \in TaskIds : \A k \in 1..Len(tasks[i].results) :
            tasks[i].results[k].user # tasks[i].user
    /\ \A e \in sent : e.user # tasks[e.task].user

\* C6 witness: a completed scan of a message in which the author's own
\* triggers occur
C6_Witness ==
    \E i \in TaskIds :
        /\ ScanCompleted(tasks[i])
        /\ OwnedMatches(tasks[i], tasks[i].user) # {}
        /\ tasks[i].results # << >>

\* C7: a delivery is attempted no earlier than NEW_MESSAGES_TIMEOUT after the
\* creation of the message; a dispatch that starts x seconds after the
\* creation sleeps exactly NEW_MESSAGES_TIMEOUT - x when x <
\* NEW_MESSAGES_TIMEOUT and does not wait at all otherwise.
C7_SettleWait ==
    /\ \A e \in sent :
            LET T == tasks[e.task].created_at
                x == e.started - T
            IN  /\ e.time >= T + NEW_MESSAGES_TIMEOUT
                /\ (x < NEW_MESSAGES_TIMEOUT) => e.slept = NEW_MESSAGES_TIMEOUT - x
                /\ (x >= NEW_MESSAGES_TIMEOUT) => e.slept = 0
                /\ e.time = e.started + e.slept
    /\ \A i \in TaskIds :
            (tasks[i].pc = "notify_sleep") =>
                /\ tasks[i].nstart - tasks[i].created_at < NEW_MESSAGES_TIMEOUT
                /\ tasks[i].wake = tasks[i].created_at + NEW_MESSAGES_TIMEOUT
    /\ \A i \in TaskIds :
            (tasks[i].pc \in {"history", "send"}) =>
                now >= tasks[i].created_at + NEW_MESSAGES_TIMEOUT

\* C7 witness: of two deliveries for one message, one was dispatched one
\* second after the creation and slept 8 seconds, the other was dispatched
\* after the settle window and did not wait
C7_Witness ==
    \E e1, e2 \in sent :
        /\ e1.task = e2.task
        /\ e1.started - tasks[e1.task].created_at = 1
        /\ e1.slept = 8
        /\ e2.started - tasks[e2.task].created_at >= NEW_MESSAGES_TIMEOUT
        /\ e2.slept = 0
        /\ e2.time = e2.started

\* C8: user.send is attempted at most once per (task, user), and after a
\* failed attempt notify has returned normally: the handler is past that
\* owner, or past the loop, and has not ended with the exception.
C8_FailedSendSwallowed ==
    /\ \A e1, e2 \in sent :
            (e1.task = e2.task /\ e1.user = e2.user) => e1 = e2
    /\ \A e \in sent :
            (~e.ok) =>
                LET t == tasks[e.task]
                IN  \/ t.pc \in {"spoken_sleep", "done"}
                    \/ Before(e.mi, e.oi, t.mi, t.oi)

\* C8 witness: a delivery has failed and its handler has gone on to run to
\* its end
C8_Witness ==
    \E e \in sent :
        /\ ~e.ok
        /\ tasks[e.task].pc = "done"

\* C9 (as claimed): a platform error inside a dispatch job is absorbed: no
\* handler ends with the exception, so the remaining users are dispatched
\* and the author's lease is taken.
C9_PlatformErrorsAbsorbed ==
    \A i \in TaskIds : tasks[i].pc # "raised"

\* C10 (as claimed): the author of a message counts as present for the
\* follow-up messages received in the LAST_SPOKEN_CUTOFF seconds after it:
\* no follow-up message dispatches a notification to that author.
C10_AuthorPresentForFollowUps ==
    \A i, j \in TaskIds :
        ( /\ tasks[i].kind = "message" /\ tasks[j].kind = "message"
          /\ tasks[i].guild /\ tasks[i].reply
          /\ tasks[i].channel = tasks[j].channel
          /\ tasks[i].received < tasks[j].received
          /\ tasks[j].received < tasks[i].received + LAST_SPOKEN_CUTOFF )
        => \A k \in 1..Len(tasks[j].results) :
                (tasks[j].results[k].user = tasks[i].user) => tasks[j].results[k].present

\* C11 (as claimed): the dispatch jobs of one message do not wait for each
\* other: every job starts when the scan of the message reaches its user,
\* which with the database answering at once is when the message is
\* received, whatever settle wait, fetch or delivery another job is in.
C11_JobsStartIndependently ==
    /\ \A i \in TaskIds :
            (tasks[i].pc \in {"notify_sleep", "history", "send"}) =>
                tasks[i].nstart = tasks[i].received
    /\ \A e \in sent : e.started = tasks[e.task].received

\* C12: every key stored in recently_spoken has a count > 0, so a key is a
\* member exactly when its count is > 0.
C12_OnlyPositiveCounts ==
    /\ DOMAIN recently_spoken \subseteq PresenceKeys
    /\ \A key \in DOMAIN recently_spoken : recently_spoken[key] > 0
    /\ \A key \in PresenceKeys :
            (key \in DOMAIN recently_spoken) <=> (Counter_getitem(recently_spoken, key) > 0)

\* C12 witness: two overlapping leases on one key have both been released,
\* the count has gone 2, 1, 0 and the key is no longer stored
C12_Witness ==
    \E i, j \in TaskIds :
        /\ i # j /\ HasLease(i) /\ HasLease(j)
        /\ KeyOf(tasks[i]) = KeyOf(tasks[j])
        /\ tasks[j].lstart < LeaseEnd(i) /\ tasks[i].lstart <= tasks[j].lstart
        /\ tasks[i].pc = "done" /\ tasks[j].pc = "done"
        /\ KeyOf(tasks[i]) \notin DOMAIN recently_spoken

\* the _track_spoken tasks on the key that have incremented and have not
\* yet decremented
Outstanding(key) ==
    {i \in TaskIds : tasks[i].pc = "spoken_sleep" /\ KeyOf(tasks[i]) = key}

\* C16: recently_spoken[key] is the number of _track_spoken tasks on the key
\* that have incremented and not yet decremented, and a task that has taken
\* a lease is either sleeping or has run its one decrement and ended.
C16_NoLostUpdate ==
    /\ \A key \in PresenceKeys :
            Counter_getitem(recently_spoken, key) = Cardinality(Outstanding(key))
    /\ \A i \in TaskIds :
            HasLease(i) => tasks[i].pc \in {"spoken_sleep", "done"}

\* C16 witness: two _track_spoken tasks on one key are sleeping and the
\* count of the key is 2
C16_Witness ==
    \E key \in PresenceKeys :
        /\ Cardinality(Outstanding(key)) = 2
        /\ Counter_getitem(recently_spoken, key) = 2

\* C18: a message outside a guild or one that should_reply excludes leaves
\* no handler behind: the step that takes it changes neither recently_spoken
\* nor the handler tasks (which alone query the trigger store and the block
\* lists and yield results) nor the deliveries, and every handler task is
\* that of a guild message that should_reply accepts.
C18_RejectedMessageNoEffect ==
    /\ [](\A i \in TaskIds : tasks[i].guild /\ tasks[i].reply)
    /\ [][(rejected' # rejected) => UNCHANGED <<recently_spoken, tasks, sent>>]_vars

\* C18 witness: a message has been rejected in a channel with triggers and
\* nothing else has happened
C18_Witness ==
    /\ rejected > 0
    /\ highlight_db # << >>
    /\ tasks = << >> /\ recently_spoken = << >> /\ sent = {}

C20_NotPresentAtJobStart ==
    [][\A i \in TaskIds :
            (tasks[i].pc = "blocks" /\ tasks'[i].pc \in {"notify_sleep", "history"}) =>
                LET key == <<tasks[i].channel, CurrentUser(tasks[i])>>
                IN  /\ key \notin DOMAIN recently_spoken
                    /\ key \notin DOMAIN recently_spoken'
                    /\ tasks'[i].nstart = now
                    /\ Len(tasks'[i].results) = Len(tasks[i].results) + 1
                    /\ ~tasks'[i].results[Len(tasks'[i].results)].present]_vars

\* C20 witness: a user who took a lease during the settle wait of the job
\* is present when the notification is delivered
C20_Witness ==
    \E e \in sent : \E j \in TaskIds :
        /\ e.ok /\ e.time = now
        /\ HasLease(j) /\ KeyOf(tasks[j]) = <<tasks[e.task].channel, e.user>>
        /\ tasks[j].lstart > e.started
        /\ tasks[j].pc = "spoken_sleep"
        /\ KeyOf(tasks[j]) \in DOMAIN recently_spoken

\* no event can arrive any more, no timer is pending and no handler awaits
\* the database or the platform: nothing is left to run
Quiescent ==
    /\ ~(Events < MaxEvents /\ now <= LastEventTime)
    /\ Deadlines = {}
    /\ ~Awaiting

\* C17 (as claimed): background work runs to its natural completion: once
\* nothing is left to run, recently_spoken is empty, every handler has run
\* to its end and every dispatch job that was started has made its delivery
\* attempt.
C17_RunsToCompletion ==
    Quiescent =>
        /\ recently_spoken = << >>
        /\ \A i \in TaskIds :
                /\ tasks[i].pc = "done"
                /\ \A k \in 1..Len(tasks[i].results) :
                        (~tasks[i].results[k].present) =>
                            SentTo(i, tasks[i].results[k].user) # {}

\* the text k occurs in s at position p as a whole word or phrase
WholeWordAt(k, s, p) ==
    /\ WordBoundary(s, p)
    /\ LiteralAt(k, s, p)
    /\ WordBoundary(s, p + Len(k))

\* the pattern in which every trigger is delimited by word boundaries on
\* both sides
whole_word_re(highlights) ==
    [i \in 1..Len(highlights) |-> [lb |-> TRUE, text |-> highlights[i], rb |-> TRUE]]

\* highlights has built the pattern and scanned the message
Scanned(t) == t.kind = "message" /\ t.pc # "channel_highlights"

LowerEach(texts) == [n \in 1..Len(texts) |-> LowerText(texts[n])]

\* the positions of the message at which a trigger of the user occurs as a
\* whole word
OccurrencesOf(u, t) ==
    {p \in 1..Len(t.content) :
        \E n \in 1..Len(channel_highlights(t.channel)) :
            /\ channel_highlights(t.channel)[n].u = u
            /\ WholeWordAt(channel_highlights(t.channel)[n].k, t.content, p)}

\* the user is not the author and there is no block between them
Eligible(u, t) ==
    u # t.user /\ u \notin blocks(t.user) /\ t.user \notin blocks(u)

\* C13 (as claimed): when every owner of a trigger the message contains is
\* eligible and nobody is present, the completed scan has yielded exactly one
\* result per such owner and no other, in the order in which their triggers
\* first occur in the message, each with the registered text of the trigger
\* that occurs there.
C13_OneResultPerOwnerInOrder ==
    \A i \in TaskIds :
        LET t == tasks[i]
            owners == {u \in Users : OccurrencesOf(u, t) # {}}
        IN  ( /\ ScanCompleted(t) /\ t.present0 = {}
              /\ \A u \in owners : Eligible(u, t) )
            => /\ {t.results[k].user : k \in 1..Len(t.results)} = owners
               /\ \A k1, k2 \in 1..Len(t.results) :
                    (t.results[k1].user = t.results[k2].user) => k1 = k2
               /\ \A k \in 1..Len(t.results) :
                    /\ ~t.results[k].present
                    /\ \E n \in 1..Len(channel_highlights(t.channel)) :
                            /\ channel_highlights(t.channel)[n].u = t.results[k].user
                            /\ channel_highlights(t.channel)[n].k = t.results[k].highlight
                            /\ WholeWordAt(t.results[k].highlight, t.content,
                                           Min(OccurrencesOf(t.results[k].user, t)))
               /\ \A k1, k2 \in 1..Len(t.results) :
                    (k1 < k2) => Min(OccurrencesOf(t.results[k1].user, t))
                                    <= Min(OccurrencesOf(t.results[k2].user, t))

\* C14 (as claimed): the matches of a scan are the whole-word occurrences of
\* the triggers: whatever the order of the alternation, they are the matches
\* of the pattern that delimits every trigger by word boundaries.
C14_WholeWordMatches ==
    \A i \in TaskIds :
        Scanned(tasks[i]) =>
            \A order \in Orders(Keys(channel_highlights(tasks[i].channel))) :
                tasks[i].matches =
                    finditer(whole_word_re(order), tasks[i].content, 1)

\* C15: the scan does not depend on the letter case of the message (the
\* matches of the message, lowered, are the matches of the lowered message,
\* for every order of the alternation), every matched text is resolved to
\* the owners of the registered trigger it is an occurrence of, and in a
\* completed scan each of these owners has a result unless the owner is the
\* author or is found in the block list.
C15_CaseInsensitive ==
    \A i \in TaskIds :
        Scanned(tasks[i]) =>
            LET t == tasks[i]
                highlight_users == channel_highlights(t.channel)
            IN  /\ \E order \in Orders(Keys(highlight_users)) :
                        t.matches = finditer(build_re(order), t.content, 1)
                /\ \A order \in Orders(Keys(highlight_users)) :
                        LowerEach(finditer(build_re(order), t.content, 1))
                            = finditer(build_re(order), LowerText(t.content), 1)
                /\ \A m \in 1..Len(t.matches) :
                        /\ getall(highlight_users, t.matches[m]) # << >>
                        /\ getall(highlight_users, t.matches[m])
                                = getall(highlight_users, LowerText(t.matches[m]))
                        /\ ScanCompleted(t) =>
                                \A o \in 1..Len(getall(highlight_users, t.matches[m])) :
                                    LET u == getall(highlight_users, t.matches[m])[o]
                                    IN  \/ u = t.user
                                        \/ IsBlocked(u, t.user)
                                        \/ ResultsFor(i, u) # {}

\* C15 witness: a notification has been delivered for a trigger registered
\* in lower case that the message has in another letter case
C15_Witness ==
    \E e \in sent :
        /\ e.ok
        /\ e.highlight # LowerText(e.highlight)
        /\ LowerText(e.highlight) \in Keys(channel_highlights(tasks[e.task].channel))
        /\ Owns(e.user, tasks[e.task].channel, LowerText(e.highlight))
        /\ ScanCompleted(tasks[e.task])

====
